---- MODULE Spec2Model ----
(***************************************************************************)
(* News_Lifecycle: the normalisation / de-duplication pipeline             *)
(* (pipeline.py), the daily aggregation (pipeline.py) and the heuristic    *)
(* misinformation score (pages/3_Misinformation_Profiler.py).              *)
(*                                                                         *)
(* A data frame is a sequence of rows; a pandas index label is the row's   *)
(* position in the concatenated input.  Timestamps are counted in ticks of *)
(* 1/TicksPerSec second; the text YYYY-MM-DDTHH:MM:SSZ of an instant is    *)
(* represented by its whole number of seconds, which orders as the text    *)
(* does.                                                                   *)
(***************************************************************************)
EXTENDS Integers, Sequences, FiniteSets, TLC

VARIABLES
    pc,        \* position of the run being modelled
    dfs,       \* rows of the input tables, in pd.concat order (raw cells)
    primary,   \* index labels of the rows left by the (platform, post_id) pass
    out,       \* the table combine_and_clean returned: rows with their source label
    out2,      \* the table combine_and_clean returns for [out]
    columns,   \* the column labels of the returned table
    report,    \* what run_fetch printed about the combined table
    tables,    \* a list of source tables, some None or without rows
    frame,     \* one source row with the columns its table has
    ensured,   \* _ensure_columns of it
    ensured2,  \* _ensure_columns of that again
    row,       \* the annotated row the profiler page scores
    score,     \* its misinfo_score
    breakdown, \* its explain_row breakdown
    agg_df,    \* the table handed to the daily aggregations
    daily,     \* result of aggregate_daily
    daily_emo, \* result of aggregate_emotions_daily
    posts,     \* the table object handed to add_sentiment
    passed,    \* the tables as they were when each annotation step was called
    sent_df,   \* the table add_sentiment returned
    emo_df,    \* the table add_emotions returned for it
    emo_text,  \* the argument of a compute_emotions call
    emotions,  \* what the call returned
    auth,      \* the arguments and files of an _ensure_session call
    attempts,  \* the authentication methods the call has attempted
    raised     \* the exception the call raised, if any

pipeVars == <<dfs, primary, out, out2, columns, report, tables>>
scoreVars == <<row, score, breakdown>>
aggVars == <<agg_df, daily, daily_emo>>
normVars == <<frame, ensured, ensured2>>
annotVars == <<posts, passed, sent_df, emo_df, emo_text, emotions>>
loginVars == <<auth, attempts, raised>>
vars == <<pc, pipeVars, scoreVars, aggVars, normVars, annotVars, loginVars>>

(***************************************************************************)
(* Bounds and input alphabets                                              *)
(***************************************************************************)
MaxRows == 3

TicksPerSec == 2

\* A missing cell (None / NaN) of a string column.
NoneVal == <<"None">>

\* A timestamp that pd.to_datetime cannot parse (NaT), and its strftime (NaN).
NaT == -1
NaN == -1

Platforms == {"reddit", "YouTube"}
PostIds == {"p1", "p2"}

\* Raw created_at cells: a wall-clock reading in ticks with a UTC offset in
\* seconds, or text that does not parse.
GoodTimes ==
    { [ok |-> TRUE, ticks |-> 6, off |-> 2],     \* UTC tick 2, second 1
      [ok |-> TRUE, ticks |-> 5, off |-> 0] }    \* UTC tick 5, second 2
BadTime == [ok |-> FALSE, ticks |-> 0, off |-> 0]
LateTime == [ok |-> TRUE, ticks |-> 7, off |-> 0]     \* UTC tick 7, second 3

\* Raw url cells, as token sequences: a missing cell, a video/permalink url
\* without comment marker, and a comment url carrying the comment id after
\* "&lc=" (as loaders/youtube_loader.py builds it).  A YouTube row always
\* carries a url.
UrlShapes(platform) ==
    IF platform = "YouTube" THEN {"video", "comment"}
    ELSE {"missing", "video", "comment"}
UrlOf(shape, id) ==
    CASE shape = "missing" -> NoneVal
      [] shape = "video"   -> <<"v">>
      [] OTHER             -> <<"v", "&", "lc=", id>>

\* The raw created_at cells a platform's rows are drawn with.
TimesOf(platform) ==
    IF platform = "YouTube" THEN {t \in GoodTimes : t.off = 0} ELSE GoodTimes

RawRows ==
    UNION {{[platform |-> p, post_id |-> i, created_at |-> t, url |-> UrlOf(s, i)] :
               i \in PostIds, t \in TimesOf(p), s \in UrlShapes(p)} : p \in Platforms}
    \cup
    {[platform |-> "reddit", post_id |-> "p1", created_at |-> BadTime, url |-> <<"v">>],
     [platform |-> "reddit", post_id |-> "p2", created_at |-> LateTime, url |-> <<"v">>]}

(***************************************************************************)
(* Helpers over sequences and index labels                                 *)
(***************************************************************************)
Range(s) == {s[i] : i \in DOMAIN s}

\* The subsequence of s at the positions in P.
RECURSIVE SubSeqAt(_, _)
SubSeqAt(s, P) ==
    IF s = <<>> THEN <<>>
    ELSE LET n == Len(s)
             front == SubSeqAt(SubSeq(s, 1, n - 1), P)
         IN IF n \in P THEN Append(front, s[n]) ELSE front

\* The elements of the finite set of integers S in ascending order.
RECURSIVE Ascending(_)
Ascending(S) ==
    IF S = {} THEN <<>>
    ELSE LET m == CHOOSE x \in S : \A y \in S : x <= y
         IN <<m>> \o Ascending(S \ {m})

(***************************************************************************)
(* Cells of any type, and the pandas conversions _ensure_columns applies   *)
(* to them.  A float is counted in halves.                                 *)
(***************************************************************************)
NoneCell == [kind |-> "none"]
NanCell == [kind |-> "nan"]
InfCell == [kind |-> "inf"]
IntCell(n) == [kind |-> "int", num |-> n]
FloatCell(h) == [kind |-> "float", halves |-> h]
StrCell(s) == [kind |-> "str", txt |-> s]
RawTimeCell(c) == [kind |-> "rawtime", raw |-> c]
IsoTextCell(s) == [kind |-> "isotext", sec |-> s]

\* The numerals of the model, with their values and texts.
Numerals == {"7", "-4"}
NumeralValue(s) == IF s = "7" THEN 7 ELSE -4
IntText(n) == CASE n = 7 -> "7" [] n = -4 -> "-4" [] n = 3 -> "3" [] n = 0 -> "0"
                [] n = 2 -> "2" [] n = -2 -> "-2" [] n = -1 -> "-1"
FloatText(h) == CASE h = 5 -> "2.5" [] h = -3 -> "-1.5"

\* pd.to_numeric(cell, errors="coerce")
to_numeric(c) ==
    CASE c.kind \in {"int", "float", "inf"} -> c
      [] c.kind = "str" /\ c.txt \in Numerals -> IntCell(NumeralValue(c.txt))
      [] c.kind = "str" /\ c.txt = "inf" -> InfCell
      [] OTHER -> NanCell

\* Series.fillna(v)
fillna(c, v) == IF c.kind \in {"none", "nan"} THEN v ELSE c

\* Series.astype(int) of a number: a fraction is truncated towards zero; a
\* non-finite value makes it raise (see AstypeIntRaises).
astype_int(c) ==
    CASE c.kind = "int" -> c
      [] c.kind = "float" ->
            IntCell(IF c.halves >= 0 THEN c.halves \div 2 ELSE -((-c.halves) \div 2))

AstypeIntRaises(c) == c.kind \in {"inf", "nan", "none"}

\* Series.astype(str)
astype_str(c) ==
    CASE c.kind = "str" -> c
      [] c.kind = "none" -> StrCell("None")
      [] c.kind = "nan" -> StrCell("nan")
      [] c.kind = "inf" -> StrCell("inf")
      [] c.kind = "int" -> StrCell(IntText(c.num))
      [] c.kind = "float" -> StrCell(FloatText(c.halves))

(***************************************************************************)
(* _ensure_columns                                                         *)
(***************************************************************************)
REQUIRED_COLS ==
    <<"platform", "post_id", "author", "created_at", "content",
      "like_count", "reply_count", "share_count", "url">>

_NUMERIC_DEFAULTS == [like_count |-> 0, reply_count |-> 0, share_count |-> 0]

\* pd.to_datetime(cell, errors="coerce", utc=True) of a raw cell: the UTC
\* instant in ticks, NaT when the cell does not parse.
to_datetime_raw(c) == IF c.ok THEN c.ticks - TicksPerSec * c.off ELSE NaT

\* dt.strftime("%Y-%m-%dT%H:%M:%SZ"): second precision, NaN for NaT.
strftime(t) == IF t = NaT THEN NaN ELSE t \div TicksPerSec

\* pd.to_datetime of a text written by strftime.
to_datetime_text(s) == IF s = NaN THEN NaT ELSE s * TicksPerSec

\* Series.fillna("").astype(str) of a string cell.
fillna_str(c) == IF c = NoneVal THEN <<>> ELSE c

\* _ensure_columns on the cells of a row that the model follows: extra
\* columns are left out, created_at is rewritten, a missing url becomes "",
\* a count becomes an integer.
ensure_row(r) ==
    [c \in DOMAIN r \cap Range(REQUIRED_COLS) |->
        CASE c = "created_at" -> strftime(to_datetime_raw(r.created_at))
          [] c = "url" -> fillna_str(r.url)
          [] c \in DOMAIN _NUMERIC_DEFAULTS ->
                astype_int(fillna(to_numeric(r[c]), IntCell(_NUMERIC_DEFAULTS[c])))
          [] OTHER -> r[c]]

\* The final _ensure_columns of combine_and_clean sees created_at as text.
ensure_row_text(r) ==
    [c \in DOMAIN r \cap Range(REQUIRED_COLS) |->
        CASE c = "created_at" -> strftime(to_datetime_text(r.created_at))
          [] c = "url" -> fillna_str(r.url)
          [] c \in DOMAIN _NUMERIC_DEFAULTS ->
                astype_int(fillna(to_numeric(r[c]), IntCell(_NUMERIC_DEFAULTS[c])))
          [] OTHER -> r[c]]

\* astype(int) raises on a count of the row that is not finite.
RowRaises(r) ==
    \E c \in DOMAIN r \cap DOMAIN _NUMERIC_DEFAULTS :
        AstypeIntRaises(fillna(to_numeric(r[c]), IntCell(_NUMERIC_DEFAULTS[c])))

_ensure_columns(df) == [i \in DOMAIN df |-> ensure_row(df[i])]

\* Mutant: a text that is read back is taken one second early.
to_datetime_cell_Early(c) ==
    CASE c.kind = "rawtime" -> to_datetime_raw(c.raw)
      [] c.kind = "isotext" -> to_datetime_text(c.sec) - TicksPerSec
      [] OTHER -> NaT

\* pd.to_datetime(cell, errors="coerce", utc=True) of a cell of any type.
to_datetime_cell(c) ==
    CASE c.kind = "rawtime" -> to_datetime_raw(c.raw)
      [] c.kind = "isotext" -> to_datetime_text(c.sec)
      [] OTHER -> NaT

strftime_cell(t) == IF t = NaT THEN NanCell ELSE IsoTextCell(strftime(t))

\* Lines 41-43: the frame with every required column, None where it had none.
WithRequired(f) ==
    [c \in DOMAIN f \cup Range(REQUIRED_COLS) |-> IF c \in DOMAIN f THEN f[c] ELSE NoneCell]

\* Line 47, before astype(int).
NumericFilled(f, c) == fillna(to_numeric(WithRequired(f)[c]), IntCell(_NUMERIC_DEFAULTS[c]))

\* astype(int) raises on a value that is not finite.
EnsureRaises(f) == \E c \in DOMAIN _NUMERIC_DEFAULTS : AstypeIntRaises(NumericFilled(f, c))

\* _ensure_columns of a one-row frame whose columns are DOMAIN f.
ensure_frame(f) ==
    [c \in Range(REQUIRED_COLS) |->
        CASE c \in DOMAIN _NUMERIC_DEFAULTS -> astype_int(NumericFilled(f, c))
          [] c = "created_at" -> strftime_cell(to_datetime_cell(WithRequired(f)[c]))
          [] c \in {"content", "platform", "author", "url"} ->
                astype_str(fillna(WithRequired(f)[c], StrCell("")))
          [] c = "post_id" -> astype_str(WithRequired(f)[c])]

(***************************************************************************)
(* combine_and_clean                                                       *)
(***************************************************************************)
\* str.lower() of the strings the model uses.
Lower(p) ==
    CASE p = "YouTube" -> "youtube"
      [] p = "WWW.TheHindu.com" -> "www.thehindu.com"
      [] OTHER -> p

\* url.str.contains(r"[?&]lc=", regex=True)
HasLcMarker(u) ==
    \E i \in 1..(Len(u) - 1) : u[i] \in {"?", "&"} /\ u[i + 1] = "lc="

\* Mutant: no exemption for YouTube rows without comment marker.
mask_unique_url_NoExemption(r) == TRUE

\* mask_unique_url: FALSE for the url-exempt rows.
mask_unique_url(r) == ~(Lower(r.platform) = "youtube" /\ ~HasLcMarker(r.url))

\* Rows after normalisation, re-parsing of created_at and dropping of NaT.
Combined(d) ==
    LET normed == _ensure_columns(d)
    IN [i \in DOMAIN d |->
          [normed[i] EXCEPT
             !.created_at = strftime(to_datetime_text(normed[i].created_at))]]

\* Mutant: rows with an invalid timestamp are not dropped.
ValidLabels_KeepAll(d) == DOMAIN d

ValidLabels(d) ==
    {i \in DOMAIN d : to_datetime_text(_ensure_columns(d)[i].created_at) # NaT}

\* sort_values("created_at"): every order of the labels that is ascending in
\* created_at (the default sort kind is not stable, so ties may come out in
\* any order).
RECURSIVE SortValues(_, _)
SortValues(tbl, L) ==
    IF L = {} THEN {<<>>}
    ELSE UNION {{<<m>> \o rest : rest \in SortValues(tbl, L \ {m})} :
                m \in {x \in L : \A y \in L : tbl[x].created_at <= tbl[y].created_at}}

PrimaryKey(r) == <<r.platform, r.post_id>>

\* Mutant: keep="last" instead of keep="first".
DropDuplicatesKey_KeepLast(tbl, o) ==
    SubSeqAt(o, {k \in DOMAIN o :
                   \A j \in (k + 1)..Len(o) : PrimaryKey(tbl[o[j]]) # PrimaryKey(tbl[o[k]])})

\* drop_duplicates(subset=["platform", "post_id"], keep="first")
DropDuplicatesKey(tbl, o) ==
    SubSeqAt(o, {k \in DOMAIN o :
                   \A j \in 1..(k - 1) : PrimaryKey(tbl[o[j]]) # PrimaryKey(tbl[o[k]])})

\* Mutant: keep="last" instead of keep="first".
DropDuplicatesUrl_KeepLast(tbl, o) ==
    SubSeqAt(o, {k \in DOMAIN o :
                   \A j \in (k + 1)..Len(o) : tbl[o[j]].url # tbl[o[k]].url})

\* drop_duplicates(subset=["url"], keep="first")
DropDuplicatesUrl(tbl, o) ==
    SubSeqAt(o, {k \in DOMAIN o :
                   \A j \in 1..(k - 1) : tbl[o[j]].url # tbl[o[k]].url})

\* Index.difference(other) with sort=None: sorted labels, except that equal
\* indexes give the empty index and an empty other gives self as it is.
IndexDifference(self, other) ==
    IF self = other THEN <<>>
    ELSE IF other = <<>> THEN self
    ELSE Ascending(Range(self) \ Range(other))

\* Mutant: only the labels of the other index are kept.
IndexUnion_OtherOnly(self, other) == other

\* Index.union(other) with sort=None: sorted labels, except that an empty
\* operand gives the other operand as it is.
IndexUnion(self, other) ==
    IF other = <<>> \/ self = other THEN self
    ELSE IF self = <<>> THEN other
    ELSE Ascending(Range(self) \cup Range(other))

\* Mutant: the url pass looks at every row with a valid timestamp, also
\* those the (platform, post_id) pass removed.
UrlPass_SeesRemovedRows(tbl, prim) ==
    LET valid == {i \in DOMAIN tbl : tbl[i].created_at # NaN}
        sorted == CHOOSE o \in SortValues(tbl, valid) : TRUE
        dedupe_url == SelectSeq(sorted, LAMBDA i : mask_unique_url(tbl[i]))
    IN Ascending((Range(prim) \ Range(dedupe_url))
                 \cup (Range(DropDuplicatesUrl(tbl, dedupe_url)) \cap Range(prim)))

\* Lines 107-115: the labels kept by the url pass, in the order of
\* combined.index.difference(dedupe_url.index).union(keep_url).
UrlPass(tbl, prim) ==
    LET dedupe_url == SelectSeq(prim, LAMBDA i : mask_unique_url(tbl[i]))
        keep_url == DropDuplicatesUrl(tbl, dedupe_url)
    IN IndexUnion(IndexDifference(prim, dedupe_url), keep_url)

\* Lines 117-119: final _ensure_columns and reset_index; src remembers the
\* label the row had before reset_index.
Finalize(tbl, labels) ==
    [k \in DOMAIN labels |-> [src |-> labels[k], row |-> ensure_row_text(tbl[labels[k]])]]

(***************************************************************************)
(* The state machine                                                       *)
(***************************************************************************)
PipeIdle ==
    /\ dfs = <<>> /\ primary = {} /\ out = <<>> /\ out2 = <<>>
    /\ columns = <<>> /\ report = <<>> /\ tables = <<>>
ScoreIdle == row = <<>> /\ score = 0 /\ breakdown = <<>>
AggIdle == agg_df = <<>> /\ daily = <<>> /\ daily_emo = <<>>
NormIdle == frame = <<>> /\ ensured = <<>> /\ ensured2 = <<>>
AnnotIdle ==
    /\ posts = <<>> /\ passed = <<>> /\ sent_df = <<>> /\ emo_df = <<>>
    /\ emo_text = <<>> /\ emotions = <<>>
LoginIdle == auth = <<>> /\ attempts = <<>> /\ raised = <<>>

Init ==
    /\ pc = "input"
    /\ PipeIdle
    /\ ScoreIdle
    /\ AggIdle
    /\ NormIdle
    /\ AnnotIdle
    /\ LoginIdle

\* run_fetch.py, lines 79-83: what the run prints about the combined table.
run_fetch_report(n) ==
    IF n = 0
    THEN [combined_rows |-> n, empty_notice |-> TRUE]
    ELSE [combined_rows |-> n, empty_notice |-> FALSE]

\* The caller appends one fetched row to the tables it will pass.
AddRow ==
    /\ pc = "input"
    /\ Len(dfs) < MaxRows
    /\ \E r \in RawRows : dfs' = Append(dfs, r)
    /\ UNCHANGED <<pc, primary, out, out2, columns, report, tables, scoreVars, aggVars, normVars, annotVars, loginVars>>

\* combine_and_clean(dfs)
CombineAndClean ==
    /\ pc = "input"
    /\ \E tbl \in {Combined(dfs)} :
       \E o \in SortValues(tbl, ValidLabels(dfs)) :
        \E prim \in {DropDuplicatesKey(tbl, o)} :
         \E labels \in {UrlPass(tbl, prim)} :
          /\ primary' = Range(prim)
          /\ out' = Finalize(tbl, labels)
          /\ columns' = REQUIRED_COLS
          /\ report' = run_fetch_report(Len(labels))
    /\ pc' = "done"
    /\ UNCHANGED <<dfs, out2, tables, scoreVars, aggVars, normVars, annotVars, loginVars>>

\* A row of a returned table as a caller passes it in again: created_at is
\* the text YYYY-MM-DDTHH:MM:SSZ, which reads as a UTC wall clock.
AsInput(r) ==
    [r EXCEPT !.created_at = [ok |-> r.created_at # NaN,
                              ticks |-> r.created_at * TicksPerSec,
                              off |-> 0]]

\* combine_and_clean([out])
CombineAgain ==
    /\ pc = "done"
    /\ \E d \in {[k \in DOMAIN out |-> AsInput(out[k].row)]} :
       \E tbl \in {Combined(d)} :
        \E o \in SortValues(tbl, ValidLabels(d)) :
         \E labels \in {UrlPass(tbl, DropDuplicatesKey(tbl, o))} :
          out2' = Finalize(tbl, labels)
    /\ pc' = "again"
    /\ UNCHANGED <<dfs, primary, out, columns, report, tables, scoreVars, aggVars, normVars, annotVars, loginVars>>

Next == AddRow \/ CombineAndClean \/ CombineAgain

Spec == Init /\ [][Next]_vars

(***************************************************************************)
(* Properties of combine_and_clean                                         *)
(***************************************************************************)
\* Labels of the input rows that reached the output.
OutLabels == {out[k].src : k \in DOMAIN out}

\* Labels of the input rows whose raw created_at parses.
Parseable(d) == {i \in DOMAIN d : to_datetime_raw(d[i].created_at) # NaT}

MinOf(S) == CHOOSE x \in S : \A y \in S : x <= y

IsYoutube(r) == Lower(r.platform) = "youtube"

\* UTC instants of the parseable input rows that share the key of row r.
InstantsOfKey(d, r) ==
    {to_datetime_raw(d[i].created_at) :
        i \in {j \in Parseable(d) : PrimaryKey(ensure_row(d[j])) = PrimaryKey(r)}}

\* C1: in the output of combine_and_clean every (platform, post_id) pair
\* occurs in exactly one row, and that row's created_at is the text of the
\* minimum UTC instant among the parseable input rows sharing the pair.
C1_KeepFirstPerKey ==
    pc = "done" =>
        /\ \A a, b \in DOMAIN out :
              PrimaryKey(out[a].row) = PrimaryKey(out[b].row) => a = b
        /\ \A a \in DOMAIN out :
              \E S \in {InstantsOfKey(dfs, out[a].row)} :
                  S # {} /\ out[a].row.created_at = strftime(MinOf(S))

\* Witness of C1: two parseable input rows share a key at different seconds
\* and the key is in the output.
C1_Witness ==
    /\ pc = "done"
    /\ \E a \in DOMAIN out : \E i, j \in Parseable(dfs) :
          /\ PrimaryKey(ensure_row(dfs[i])) = PrimaryKey(out[a].row)
          /\ PrimaryKey(ensure_row(dfs[j])) = PrimaryKey(out[a].row)
          /\ ensure_row(dfs[i]).created_at < ensure_row(dfs[j]).created_at
          /\ to_datetime_raw(dfs[i].created_at) # dfs[i].created_at.ticks

\* C2: a blank url is never a dedup key: every row with a blank url that
\* survived the (platform, post_id) pass is in the output.
C2_BlankUrlNeverDedupKey ==
    pc = "done" =>
        \A tbl \in {Combined(dfs)} :
            \A i \in primary : tbl[i].url = <<>> => i \in OutLabels

\* Two YouTube rows with distinct post_id whose urls point at the same video:
\* identical urls without marker, or urls with distinct markers.
SameVideoPair(r1, r2) ==
    /\ IsYoutube(r1) /\ IsYoutube(r2)
    /\ r1.post_id # r2.post_id
    /\ \/ r1.url = r2.url /\ ~HasLcMarker(r1.url)
       \/ HasLcMarker(r1.url) /\ HasLcMarker(r2.url) /\ r1.url # r2.url

\* No other parseable row has the key of row i, nor (when row i is not
\* url-exempt) is a non-exempt row with the url of row i.
NoRival(tbl, L, i) ==
    \A k \in L \ {i} :
        /\ PrimaryKey(tbl[k]) # PrimaryKey(tbl[i])
        /\ mask_unique_url(tbl[i]) =>
              ~(mask_unique_url(tbl[k]) /\ tbl[k].url = tbl[i].url)

\* No YouTube row without comment marker is removed by the url pass.
ExemptRowsKept(tbl) ==
    \A i \in primary :
        (IsYoutube(tbl[i]) /\ ~HasLcMarker(tbl[i].url)) => i \in OutLabels

\* C9 as stated: for every input, two parseable YouTube rows with distinct
\* post_id and urls of the same video are both in the output, and no YouTube
\* row without marker is removed by the url pass.
C9_SameVideoRowsKept ==
    pc = "done" =>
        \A tbl \in {Combined(dfs)} :
            /\ \A i, j \in ValidLabels(dfs) :
                  (i # j /\ SameVideoPair(tbl[i], tbl[j])) =>
                      (i \in OutLabels /\ j \in OutLabels)
            /\ ExemptRowsKept(tbl)

\* C9 amended: the two rows are both in the output provided no other
\* parseable row shares the (platform, post_id) of either and no other
\* non-exempt row carries the url of a marked one; and no YouTube row
\* without marker is removed by the url pass.
C9_SameVideoRowsKeptUnlessRival ==
    pc = "done" =>
        \A tbl \in {Combined(dfs)} : \A L \in {ValidLabels(dfs)} :
            /\ \A i, j \in L :
                  (/\ i # j
                   /\ SameVideoPair(tbl[i], tbl[j])
                   /\ NoRival(tbl, L, i)
                   /\ NoRival(tbl, L, j)) =>
                      (i \in OutLabels /\ j \in OutLabels)
            /\ ExemptRowsKept(tbl)

\* Witness of C9: two YouTube rows with distinct post_id and the same
\* marker-less url are both in the output, next to a non-exempt row that
\* carries that url too.
C9_Witness ==
    /\ pc = "done"
    /\ \E tbl \in {Combined(dfs)} : \E L \in {ValidLabels(dfs)} :
          \E i, j, k \in L :
              /\ i # j
              /\ SameVideoPair(tbl[i], tbl[j])
              /\ tbl[i].url = tbl[j].url
              /\ NoRival(tbl, L, i) /\ NoRival(tbl, L, j)
              /\ mask_unique_url(tbl[k]) /\ tbl[k].url = tbl[i].url
              /\ {i, j, k} \subseteq OutLabels

\* C10: no two output rows that are not url-exempt share a non-empty url,
\* and for every non-exempt row with a non-empty url that survived the
\* primary pass the output holds a non-exempt row with that url whose
\* created_at is not later.
C10_UrlUniqueKeepEarliest ==
    pc = "done" =>
        \A tbl \in {Combined(dfs)} :
            /\ \A a, b \in DOMAIN out :
                  (/\ a # b
                   /\ mask_unique_url(out[a].row) /\ mask_unique_url(out[b].row)
                   /\ out[a].row.url # <<>>) =>
                      out[a].row.url # out[b].row.url
            /\ \A i \in primary :
                  (mask_unique_url(tbl[i]) /\ tbl[i].url # <<>>) =>
                      \E a \in DOMAIN out :
                          /\ mask_unique_url(out[a].row)
                          /\ out[a].row.url = tbl[i].url
                          /\ out[a].row.created_at <= tbl[i].created_at

\* Witness of C10: two non-exempt rows of different platforms that survived
\* the primary pass share a non-empty url at different seconds.
C10_Witness ==
    /\ pc = "done"
    /\ \E tbl \in {Combined(dfs)} : \E i, j \in primary :
          /\ mask_unique_url(tbl[i]) /\ mask_unique_url(tbl[j])
          /\ tbl[i].url # <<>> /\ tbl[i].url = tbl[j].url
          /\ tbl[i].platform # tbl[j].platform
          /\ tbl[i].created_at < tbl[j].created_at
          /\ i \in OutLabels /\ j \notin OutLabels

\* C11: the url pass sees only the rows that survived the (platform,
\* post_id) pass: a row removed by the primary pass is not in the output,
\* and every row the url pass drops shares its url with a survivor of the
\* primary pass that is in the output.
C11_PassesSequential ==
    pc = "done" =>
        \A tbl \in {Combined(dfs)} :
            /\ OutLabels \subseteq primary
            /\ \A i \in primary \ OutLabels :
                  \E k \in OutLabels :
                      /\ mask_unique_url(tbl[i]) /\ mask_unique_url(tbl[k])
                      /\ tbl[k].url = tbl[i].url

\* Witness of C11: A, B share a key with A earlier; B and a later row C of
\* another key share a url; the output is A and C.
C11_Witness ==
    /\ pc = "done"
    /\ \E tbl \in {Combined(dfs)} : \E a, b, c \in ValidLabels(dfs) :
          /\ tbl[a].created_at < tbl[b].created_at
          /\ tbl[b].created_at < tbl[c].created_at
          /\ PrimaryKey(tbl[a]) = PrimaryKey(tbl[b])
          /\ PrimaryKey(tbl[c]) # PrimaryKey(tbl[b])
          /\ mask_unique_url(tbl[b]) /\ mask_unique_url(tbl[c])
          /\ tbl[b].url = tbl[c].url /\ tbl[a].url # tbl[b].url
          /\ b \notin primary
          /\ OutLabels = {a, c}

\* C14: every output row carries the text of a parseable UTC instant (that
\* of its source row); an input row whose created_at is missing or does not
\* parse is not in the output, and every valid row that is not in the output
\* was displaced by another valid row (same key, or same url among the rows
\* that are not url-exempt).
C14_TimestampsParseable ==
    pc = "done" =>
        \A tbl \in {Combined(dfs)} :
            /\ \A a \in DOMAIN out :
                  /\ out[a].row.created_at # NaN
                  /\ to_datetime_text(out[a].row.created_at) # NaT
                  /\ out[a].row.created_at
                        = strftime(to_datetime_raw(dfs[out[a].src].created_at))
            /\ \A i \in DOMAIN dfs \ Parseable(dfs) : i \notin OutLabels
            /\ \A i \in Parseable(dfs) \ OutLabels :
                  \E k \in Parseable(dfs) \ {i} :
                      \/ PrimaryKey(tbl[k]) = PrimaryKey(tbl[i])
                      \/ /\ mask_unique_url(tbl[i]) /\ mask_unique_url(tbl[k])
                         /\ tbl[k].url = tbl[i].url

\* Witness of C14: a row without a valid timestamp shares key and url with
\* a valid row; the valid row is in the output.
C14_Witness ==
    /\ pc = "done"
    /\ \E i \in DOMAIN dfs \ Parseable(dfs) : \E j \in Parseable(dfs) :
          /\ PrimaryKey(dfs[i]) = PrimaryKey(dfs[j])
          /\ dfs[i].url = dfs[j].url
          /\ i < j
          /\ OutLabels = {j}

\* The rows of a returned table, in order.
RowsOf(t) == [k \in DOMAIN t |-> t[k].row]

\* C12: running combine_and_clean on its own output returns exactly that
\* output: same rows, same field values, same row order.
C12_Idempotent == pc = "again" => RowsOf(out2) = RowsOf(out)

\* The number of rows combine_and_clean left out for want of a valid created_at.
DroppedForTimestamp == Len(dfs) - Cardinality(Parseable(dfs))

\* The number of rows the two de-duplication passes removed.
DuplicatesRemoved == Cardinality(Parseable(dfs)) - Len(out)

\* C18: the run reports how many rows were dropped for a bad timestamp, so
\* that rows in = rows out + reported dropped + duplicates removed.
C18_DroppedRowsReported ==
    (pc = "done" /\ DroppedForTimestamp > 0) =>
        /\ "dropped" \in DOMAIN report
        /\ report.dropped = DroppedForTimestamp
        /\ Len(dfs) = report.combined_rows + report.dropped + DuplicatesRemoved

\* The tables combine_and_clean can return for the rows d.
CombineResults(d) ==
    LET tbl == Combined(d)
    IN {Finalize(tbl, UrlPass(tbl, DropDuplicatesKey(tbl, o))) :
            o \in SortValues(tbl, ValidLabels(d))}

\* The input rows in another order.
Reordered(d) == {[i \in DOMAIN d |-> d[p[i]]] : p \in Permutations(DOMAIN d)}

RowSet(t) == {t[k].row : k \in DOMAIN t}

\* C26: the set of rows combine_and_clean returns does not depend on the
\* order of the input rows: for every reordering of the input the output
\* holds the same rows with the same field values, also when rows sharing a
\* key or a url carry the same created_at and differ in other fields.
C26_OutputIndependentOfOrder ==
    pc = "done" =>
        \A d \in Reordered(dfs) : \A t \in CombineResults(d) : RowSet(t) = RowSet(out)

\* C27: a row with a parseable timestamp that survived the (platform,
\* post_id) pass and is not in the output is not url-exempt, and the output
\* holds another row with the identical url and a created_at not later;
\* every output row is the normalised form of an input row.
C27_OnlyUrlDuplicatesRemoved ==
    pc = "done" =>
        \A tbl \in {Combined(dfs)} :
            /\ \A i \in primary \ OutLabels :
                  /\ mask_unique_url(tbl[i])
                  /\ \E a \in DOMAIN out :
                        /\ out[a].src # i
                        /\ out[a].row.url = tbl[i].url
                        /\ out[a].row.created_at <= tbl[i].created_at
            /\ \A a \in DOMAIN out :
                  \E i \in Parseable(dfs) : out[a].row = ensure_row(dfs[i])

\* Witness of C27: a url-exempt row and two non-exempt rows survive the
\* primary pass; the non-exempt rows share a url and only the earlier of
\* them is in the output, next to the exempt row.
C27_Witness ==
    /\ pc = "done"
    /\ \E tbl \in {Combined(dfs)} : \E i, j, k \in primary :
          /\ ~mask_unique_url(tbl[k])
          /\ mask_unique_url(tbl[i]) /\ mask_unique_url(tbl[j])
          /\ tbl[i].url = tbl[j].url
          /\ tbl[i].created_at <= tbl[j].created_at
          /\ OutLabels = {i, k}
          /\ j \notin OutLabels

(***************************************************************************)
(* pages/3_Misinformation_Profiler.py: feature extractors                  *)
(*                                                                         *)
(* A text is a sequence of space-separated tokens; a number of [0,1] is    *)
(* counted in units of 1/FS, and a score in units of 1/ONE.                *)
(***************************************************************************)
MaxTokens == 2

FS == 12 * 1000
ONE == FS * 100 * 100 * 2

Tokens == {"FAKE", "breaking", "Hello", "!!", "(siren)", "fact-check", "fact-sheet"}

\* The pieces of the two scenario contents that are not tokens above.
PhraseTokens ==
    {"BREAKING!!!", "This is", "shocking proof",
     "Officials confirmed the update this morning."}

Words == Tokens \cup PhraseTokens

Plain ==
    [upper |-> 0, lower |-> 0, excl |-> 0, quest |-> 0, dots |-> 0,
     rumor |-> 0, sens |-> 0, emoji |-> 0, debunk |-> 0]

\* What the str methods and the regular expressions find in one token:
\* upper/lower-case letters, "!", "?", "..." and the matches of RUMOR_RE,
\* SENS_RE, EMOJI_RE and DEBUNK_RE.
TokenInfo(t) ==
    CASE t = "FAKE"       -> [Plain EXCEPT !.upper = 4, !.rumor = 1]
      [] t = "breaking"   -> [Plain EXCEPT !.lower = 8, !.sens = 1]
      [] t = "Hello"      -> [Plain EXCEPT !.upper = 1, !.lower = 4]
      [] t = "!!"         -> [Plain EXCEPT !.excl = 2]
      [] t = "(siren)"    -> [Plain EXCEPT !.emoji = 1]
      [] t = "fact-check" -> [Plain EXCEPT !.lower = 9, !.debunk = 1]
      [] t = "fact-sheet" -> [Plain EXCEPT !.lower = 9]
      [] t = "BREAKING!!!" -> [Plain EXCEPT !.upper = 8, !.excl = 3, !.sens = 1]
      [] t = "This is"    -> [Plain EXCEPT !.upper = 1, !.lower = 5]
      [] t = "shocking proof" -> [Plain EXCEPT !.lower = 13, !.sens = 2]
      [] t = "Officials confirmed the update this morning." ->
            [Plain EXCEPT !.upper = 1, !.lower = 37]

RECURSIVE Total(_, _)
Total(f, text) == IF text = <<>> THEN 0 ELSE f[Head(text)] + Total(f, Tail(text))

Min(a, b) == IF a <= b THEN a ELSE b
Max(a, b) == IF a >= b THEN a ELSE b
Abs(a) == IF a < 0 THEN -a ELSE a

\* math.log1p(n) in units of 1/FS, n = 0..12.
LOG1P(n) ==
    <<0, 8318, 13183, 16636, 19313, 21501, 23351, 24953, 26367, 27631,
      28775, 29819, 30779>>[n + 1]

RUMOR_DIV == 4
EMOJI_DIV == 3
PUNCT_DIV == 5

caps_ratio(text) ==
    IF text = <<>> THEN 0
    ELSE LET upper == Total([t \in Words |-> TokenInfo(t).upper], text)
             letters == upper + Total([t \in Words |-> TokenInfo(t).lower], text)
         IN IF letters = 0 THEN 0 ELSE (FS * upper) \div Max(1, letters)

punct_boost(text) ==
    IF text = <<>> THEN 0
    ELSE LET exclam == Total([t \in Words |-> TokenInfo(t).excl], text)
             quest == Total([t \in Words |-> TokenInfo(t).quest], text)
             dots == Total([t \in Words |-> TokenInfo(t).dots], text)
         IN Min(FS, (10 * LOG1P(exclam) + 8 * LOG1P(quest) + 5 * LOG1P(dots))
                       \div (10 * PUNCT_DIV))

emoji_boost(text) ==
    IF text = <<>> THEN 0
    ELSE Min(FS, (FS * Total([t \in Words |-> TokenInfo(t).emoji], text)) \div EMOJI_DIV)

\* Mutant: the emoji matches are left out of the lexicon hits.
rumor_hit_NoEmoji(text) ==
    IF text = <<>> THEN 0
    ELSE LET hits == Total([t \in Words |-> TokenInfo(t).rumor], text)
                     + Total([t \in Words |-> TokenInfo(t).sens], text)
         IN Min(FS, (FS * hits) \div RUMOR_DIV)

rumor_hit(text) ==
    IF text = <<>> THEN 0
    ELSE LET hits == Total([t \in Words |-> TokenInfo(t).rumor], text)
                     + Total([t \in Words |-> TokenInfo(t).sens], text)
                     + Total([t \in Words |-> TokenInfo(t).emoji], text)
         IN Min(FS, (FS * hits) \div RUMOR_DIV)

\* DEBUNK_RE.search(text)
DebunkSearch(text) == \E i \in DOMAIN text : TokenInfo(text[i]).debunk > 0

LOW_CRED_DOMAINS == {}
MAINSTREAM_DOMAINS == {}

\* host.endswith(d), for the hosts of the model.
EndsWith(host, d) == host = d \/ <<host, d>> \in {<<"www.thehindu.com", "thehindu.com">>}

ADJ_LOW_CRED == 8
ADJ_MAINSTREAM == 6

\* domain_adjust, in hundredths.
domain_adjust(url) ==
    IF url = <<>> THEN 0
    ELSE LET m == {i \in 1..(Len(url) - 1) :
                      url[i] \in {"http://", "https://"} /\ url[i + 1] # "/"}
         IN IF m = {} THEN 0
            ELSE LET host == Lower(url[(CHOOSE i \in m : \A j \in m : i <= j) + 1])
                 IN IF host \in LOW_CRED_DOMAINS
                       \/ \E d \in LOW_CRED_DOMAINS : EndsWith(host, d)
                    THEN ADJ_LOW_CRED
                    ELSE IF host \in MAINSTREAM_DOMAINS
                            \/ \E d \in MAINSTREAM_DOMAINS : EndsWith(host, d)
                         THEN -ADJ_MAINSTREAM
                         ELSE 0

(***************************************************************************)
(* misinfo_score_row and explain_row                                       *)
(***************************************************************************)
W_LEXICON == 28
W_CAPS == 12
W_PUNCT == 10
W_EMOJI == 7
W_EMO == 18
W_EXTREME == 12
W_LOWNEU == 5
W_DEBUNK == 10

E_ANGER == 35
E_FEAR == 25
E_SURPRISE == 20
E_DISGUST == 10
E_JOY == 10

\* style_gate in halves: 1.0 and 0.5.
GATE_FULL == 2
GATE_HALF == 1
GATE_MIN_SIGNALS == 2

\* The activation threshold 0.2 of caps and punctuation.
TH_ACTIVE == FS \div 5

Bool2Int(b) == IF b THEN 1 ELSE 0

\* Mutant: caps and punctuation count from 0.2 on (>= instead of >).
Signals_NonStrict(r) ==
    Bool2Int(rumor_hit(r.content) > 0)
    + Bool2Int(caps_ratio(r.content) >= TH_ACTIVE)
    + Bool2Int(punct_boost(r.content) >= TH_ACTIVE)
    + Bool2Int(emoji_boost(r.content) > 0)

\* signals = sum([r_hit > 0, caps > 0.2, p_bo > 0.2, e_bo > 0.0])
Signals(r) ==
    Bool2Int(rumor_hit(r.content) > 0)
    + Bool2Int(caps_ratio(r.content) > TH_ACTIVE)
    + Bool2Int(punct_boost(r.content) > TH_ACTIVE)
    + Bool2Int(emoji_boost(r.content) > 0)

style_gate(r) == IF Signals(r) >= GATE_MIN_SIGNALS THEN GATE_FULL ELSE GATE_HALF

\* The weighted emotion sum before clamping, in units of 1/(100 FS).
emo_mix_sum(r) ==
    (E_ANGER * r.anger + E_FEAR * r.fear + E_SURPRISE * r.surprise
     + E_DISGUST * r.disgust) - E_JOY * r.joy

emo_mix(r) == Max(0, Min(100 * FS, emo_mix_sum(r)))

extreme(r) == Max(0, Min(FS, Abs(r.sentiment_compound)))

\* Mutant: the neutral share above one half counts, not the share below.
low_neu_FromNeutral(r) == Max(0, r.sentiment_neu - (FS \div 2)) * 2

low_neu(r) == Max(0, (FS \div 2) - r.sentiment_neu) * 2

\* Mutant: the debunk deduction is left out.
RawScore_NoDebunk(r) ==
    200 * W_LEXICON * rumor_hit(r.content)
    + style_gate(r) * 100 * (W_CAPS * caps_ratio(r.content)
                             + W_PUNCT * punct_boost(r.content)
                             + W_EMOJI * emoji_boost(r.content))
    + 2 * W_EMO * emo_mix(r)
    + 200 * W_EXTREME * extreme(r)
    + 200 * W_LOWNEU * low_neu(r)
    + 200 * FS * domain_adjust(r.url)

\* Mutant: the lexicon term is gated like the style terms.
RawScore_GatedLexicon(r) ==
    style_gate(r) * 100 * (W_LEXICON * rumor_hit(r.content)
                           + W_CAPS * caps_ratio(r.content)
                           + W_PUNCT * punct_boost(r.content)
                           + W_EMOJI * emoji_boost(r.content))
    + 2 * W_EMO * emo_mix(r)
    + 200 * W_EXTREME * extreme(r)
    + 200 * W_LOWNEU * low_neu(r)
    + 200 * FS * domain_adjust(r.url)
    - 200 * FS * W_DEBUNK * Bool2Int(DebunkSearch(r.content))

\* Lines 138-145: the weighted sum, in units of 1/ONE.
RawScore(r) ==
    200 * W_LEXICON * rumor_hit(r.content)
    + style_gate(r) * 100 * (W_CAPS * caps_ratio(r.content)
                             + W_PUNCT * punct_boost(r.content)
                             + W_EMOJI * emoji_boost(r.content))
    + 2 * W_EMO * emo_mix(r)
    + 200 * W_EXTREME * extreme(r)
    + 200 * W_LOWNEU * low_neu(r)
    + 200 * FS * domain_adjust(r.url)
    - 200 * FS * W_DEBUNK * Bool2Int(DebunkSearch(r.content))

\* Mutant: the final clamp is left out.
misinfo_score_row_NoClamp(r) == RawScore(r)

misinfo_score_row(r) == Max(0, Min(ONE, RawScore(r)))

explain_row(r) ==
    [rumor_hit   |-> rumor_hit(r.content),
     caps_ratio  |-> caps_ratio(r.content),
     punct_boost |-> punct_boost(r.content),
     emoji_boost |-> emoji_boost(r.content),
     emo_mix     |-> emo_mix_sum(r),
     extreme     |-> Abs(r.sentiment_compound),
     low_neu     |-> Max(0, (FS \div 2) - r.sentiment_neu) * 2]

(***************************************************************************)
(* The profiler page as a state machine                                    *)
(***************************************************************************)
Compounds == {-FS, 0, FS \div 2}
Neutrals == {0, FS \div 4, FS}
EmotionLevels == {0, FS}
ScoreUrls == {<<>>, <<"https://", "WWW.TheHindu.com", "/", "a">>}

\* The suspicion thresholds of the sidebar slider that the model tries.
Thresholds == {0, (ONE \div 10) * 6}

\* Rows not yet typed in: no emotion, one emotion or all five at once.
AnnotatedRows ==
    {r \in [content : {<<>>}, url : ScoreUrls,
            sentiment_compound : Compounds, sentiment_neu : Neutrals,
            anger : EmotionLevels, fear : EmotionLevels, surprise : EmotionLevels,
            joy : EmotionLevels, disgust : EmotionLevels] :
        (r.anger + r.fear + r.surprise + r.joy + r.disgust) \div FS \in {0, 1, 5}}

InitScore ==
    /\ pc = "row"
    /\ row \in AnnotatedRows
    /\ score = 0
    /\ breakdown = <<>>
    /\ PipeIdle
    /\ AggIdle
    /\ NormIdle
    /\ AnnotIdle
    /\ LoginIdle

\* One more token of the row's content.
TypeToken ==
    /\ pc = "row"
    /\ Len(row.content) < MaxTokens
    /\ \E t \in Tokens : row' = [row EXCEPT !.content = Append(@, t)]
    /\ UNCHANGED <<pc, score, breakdown, pipeVars, aggVars, normVars, annotVars, loginVars>>

\* df["misinfo_score"] = df.apply(misinfo_score_row, axis=1)
ScoreRow ==
    /\ pc = "row"
    /\ score' = misinfo_score_row(row)
    /\ pc' = "scored"
    /\ UNCHANGED <<row, breakdown, pipeVars, aggVars, normVars, annotVars, loginVars>>

\* The breakdown of a row among the top suspected posts.
ExplainRow ==
    /\ pc = "scored"
    /\ \E threshold \in Thresholds : score >= threshold
    /\ breakdown' = explain_row(row)
    /\ pc' = "explained"
    /\ UNCHANGED <<row, score, pipeVars, aggVars, normVars, annotVars, loginVars>>

NextScore == TypeToken \/ ScoreRow \/ ExplainRow

SpecScore == InitScore /\ [][NextScore]_vars

(***************************************************************************)
(* Properties of the scoring engine                                        *)
(***************************************************************************)
Scored == pc \in {"scored", "explained"}

\* C4: for every row with annotations in their declared ranges, and every
\* content and url, the score of the row lies in [0, 1], also when the
\* weighted sum is negative.
C4_ScoreInUnitInterval == Scored => (0 <= score /\ score <= ONE)

C4_Witness == pc = "scored" /\ RawScore(row) < 0 /\ score = 0

clamp01(x, one) == IF x < 0 THEN 0 ELSE IF x > one THEN one ELSE x

\* The reference formula of the score, term by term, in units of 1/ONE.
ReferenceScore(r) ==
    LET lexicon_hit_rate == rumor_hit(r.content)
        emotion_mix == clamp01((E_ANGER * r.anger + E_FEAR * r.fear
                                + E_SURPRISE * r.surprise + E_DISGUST * r.disgust)
                               - E_JOY * r.joy, 100 * FS)
        sentiment_extremity == clamp01(Abs(r.sentiment_compound), FS)
        low_neutrality_boost == 2 * Max(0, (FS \div 2) - r.sentiment_neu)
        debunk_signal == IF DebunkSearch(r.content) THEN 1 ELSE 0
        lexicon == 200 * W_LEXICON * lexicon_hit_rate
        style == 100 * style_gate(r) * (W_CAPS * caps_ratio(r.content)
                                        + W_PUNCT * punct_boost(r.content)
                                        + W_EMOJI * emoji_boost(r.content))
        rest == 2 * W_EMO * emotion_mix
                + 200 * (W_EXTREME * sentiment_extremity
                         + W_LOWNEU * low_neutrality_boost)
                + 200 * FS * (domain_adjust(r.url) - W_DEBUNK * debunk_signal)
    IN clamp01(lexicon + style + rest, ONE)

\* C5: the score of every row equals the reference formula, in which the
\* gate multiplies the three style terms only and not the lexicon term.
C5_ScoreEqualsReference == Scored => score = ReferenceScore(row)

C5_Witness ==
    /\ pc = "scored"
    /\ style_gate(row) = GATE_HALF
    /\ rumor_hit(row.content) > 0
    /\ caps_ratio(row.content) > 0
    /\ 0 < score /\ score < ONE

\* The activation conditions that hold for a row.
ActiveSignals(r) ==
    {c \in {"lexicon", "caps", "punct", "emoji"} :
        \/ c = "lexicon" /\ rumor_hit(r.content) > 0
        \/ c = "caps" /\ 5 * caps_ratio(r.content) > FS
        \/ c = "punct" /\ 5 * punct_boost(r.content) > FS
        \/ c = "emoji" /\ emoji_boost(r.content) > 0}

\* C6: the gate is 1.0 exactly when at least two of the four strict
\* activation conditions hold and 0.5 otherwise; a caps ratio of exactly
\* 0.2 does not count.
C6_GateIffTwoSignals ==
    Scored =>
        /\ style_gate(row) \in {GATE_FULL, GATE_HALF}
        /\ style_gate(row) = GATE_FULL <=> Cardinality(ActiveSignals(row)) >= 2

C6_Witness ==
    /\ pc = "scored"
    /\ 5 * caps_ratio(row.content) = FS
    /\ Cardinality(ActiveSignals(row)) = 1
    /\ style_gate(row) = GATE_HALF

\* The content holds an emoji of the alarm set.
HasAlarmEmoji(content) == \E i \in DOMAIN content : content[i] = "(siren)"

\* C28: an alarm-set emoji counts both as a lexicon hit and as emoji
\* density, so every content holding one has at least two of the four gate
\* signals active and gets style_gate = 1.0, also when the emoji is its
\* only stylistic feature.
C28_AlarmEmojiOpensGate ==
    (Scored /\ HasAlarmEmoji(row.content)) =>
        /\ rumor_hit(row.content) > 0
        /\ emoji_boost(row.content) > 0
        /\ Cardinality(ActiveSignals(row)) >= 2
        /\ style_gate(row) = GATE_FULL

\* A content that is one alarm emoji and nothing else.
C28_Witness ==
    /\ pc = "scored"
    /\ row.content = <<"(siren)">>
    /\ Cardinality(ActiveSignals(row)) = 2
    /\ caps_ratio(row.content) = 0
    /\ punct_boost(row.content) = 0
    /\ style_gate(row) = GATE_FULL

\* The sub-terms misinfo_score_row uses for a row.
ScoreTerms(r) ==
    [rumor_hit   |-> rumor_hit(r.content),
     caps_ratio  |-> caps_ratio(r.content),
     punct_boost |-> punct_boost(r.content),
     emoji_boost |-> emoji_boost(r.content),
     emo_mix     |-> emo_mix(r),
     extreme     |-> extreme(r),
     low_neu     |-> low_neu(r)]

\* C7: every sub-term of the breakdown of a row equals the sub-term that
\* the score of the row was computed from; emotion mix and extremity are
\* the clamped values.
C7_BreakdownMatchesScore == pc = "explained" => breakdown = ScoreTerms(row)

\* The row with the same features and no debunk signal.
Twin(r) ==
    [r EXCEPT !.content = [i \in DOMAIN r.content |->
                              IF r.content[i] = "fact-check" THEN "fact-sheet"
                              ELSE r.content[i]]]

\* C8 as stated: a row with the debunk signal scores strictly lower than
\* the row with identical features and no debunk signal.
C8_DebunkStrictlyLower ==
    (Scored /\ DebunkSearch(row.content)) => score < misinfo_score_row(Twin(row))

\* C8 as amended: a row with the debunk signal never scores higher than its
\* twin without it, and scores strictly lower exactly when the twin's
\* unclamped sum lies strictly between 0 and 1.1.
C8_DebunkLowerUnlessClamped ==
    (Scored /\ DebunkSearch(row.content)) =>
        \E twin \in {misinfo_score_row(Twin(row))} :
         \E sum \in {RawScore(Twin(row))} :
            /\ score <= twin
            /\ score < twin <=> (0 < sum /\ sum < ONE + ONE \div 10)

C8_Witness ==
    /\ pc = "scored"
    /\ DebunkSearch(row.content)
    /\ RawScore(Twin(row)) = 0
    /\ RawScore(row) < 0
    /\ score = misinfo_score_row(Twin(row))

(***************************************************************************)
(* pipeline.py: aggregate_daily and aggregate_emotions_daily               *)
(*                                                                         *)
(* created_at of an annotated row is the text written by combine_and_clean *)
(* (whole seconds, UTC); a mean is <<sum, count>>, and <<>> when there is  *)
(* nothing to average.                                                     *)
(***************************************************************************)
MaxAggRows == 3

DaySeconds == 86400

EMO_KEYS == {"anger", "sadness", "joy", "fear", "surprise", "disgust"}

AggTimes == {0, DaySeconds - 1, DaySeconds, 3 * DaySeconds + 5}

\* Counts, sentiment and emotion annotations of a post (annotations in
\* hundredths).
Payloads ==
    {[post_id |-> <<"p1">>, like_count |-> 3, reply_count |-> 1, share_count |-> 0,
      sentiment_pos |-> 10, sentiment_neu |-> 80, sentiment_neg |-> 10,
      sentiment_compound |-> -20,
      anger |-> 50, sadness |-> 0, joy |-> 0, fear |-> 25, surprise |-> 0,
      disgust |-> 0],
     [post_id |-> <<"p2">>, like_count |-> 0, reply_count |-> 2, share_count |-> 5,
      sentiment_pos |-> 40, sentiment_neu |-> 60, sentiment_neg |-> 0,
      sentiment_compound |-> 70,
      anger |-> 0, sadness |-> 10, joy |-> 100, fear |-> 0, surprise |-> 30,
      disgust |-> 0]}

AggRows == {[created_at |-> t, data |-> p] : t \in AggTimes, p \in Payloads}

MaxOf(S) == CHOOSE x \in S : \A y \in S : x >= y

\* The day bin of a row: pd.to_datetime(created_at, utc=True) floored to
\* the day.
DayBin(r) == to_datetime_text(r.created_at) \div (TicksPerSec * DaySeconds)

\* groupby(pd.Grouper(freq="D")): the bins are all the days from the first
\* row's day to the last row's day.
GrouperDays(df) ==
    LET days == {DayBin(df[i]) : i \in DOMAIN df}
    IN Ascending(MinOf(days)..MaxOf(days))

GroupOf(df, d) == SubSeqAt(df, {i \in DOMAIN df : DayBin(df[i]) = d})

RECURSIVE SumOf(_, _)
SumOf(col, g) == IF g = <<>> THEN 0 ELSE g[1].data[col] + SumOf(col, Tail(g))

\* Mutant: "nunique" in place of "count".
CountOf_Unique(col, g) == Cardinality({g[i].data[col] : i \in DOMAIN g} \ {NoneVal})

\* "count": the cells of the group that are not null.
CountOf(col, g) == Cardinality({i \in DOMAIN g : g[i].data[col] # NoneVal})

MeanOf(col, g) == IF g = <<>> THEN <<>> ELSE <<SumOf(col, g), Len(g)>>

aggregate_daily(df) ==
    IF df = <<>> THEN <<>>
    ELSE LET days == GrouperDays(df)
         IN [k \in DOMAIN days |->
               LET g == GroupOf(df, days[k])
               IN [created_at |-> days[k],
                   posts |-> CountOf("post_id", g),
                   likes |-> SumOf("like_count", g),
                   replies |-> SumOf("reply_count", g),
                   shares |-> SumOf("share_count", g),
                   sentiment_pos |-> MeanOf("sentiment_pos", g),
                   sentiment_neu |-> MeanOf("sentiment_neu", g),
                   sentiment_neg |-> MeanOf("sentiment_neg", g),
                   sentiment_compound |-> MeanOf("sentiment_compound", g)]]

aggregate_emotions_daily(df) ==
    IF df = <<>> THEN <<>>
    ELSE LET days == GrouperDays(df)
         IN [k \in DOMAIN days |->
               LET g == GroupOf(df, days[k])
               IN [date |-> days[k],
                   means |-> [e \in EMO_KEYS |-> MeanOf(e, g)]]]

InitAgg ==
    /\ pc = "agg_input"
    /\ AggIdle
    /\ PipeIdle
    /\ ScoreIdle
    /\ NormIdle
    /\ AnnotIdle
    /\ LoginIdle

\* One more annotated row; the table is in created_at order, as
\* combine_and_clean leaves it.
AddAggRow ==
    /\ pc = "agg_input"
    /\ Len(agg_df) < MaxAggRows
    /\ \E r \in AggRows :
        /\ IF agg_df = <<>> THEN TRUE
           ELSE agg_df[Len(agg_df)].created_at <= r.created_at
        /\ agg_df' = Append(agg_df, r)
    /\ UNCHANGED <<pc, daily, daily_emo, pipeVars, scoreVars, normVars, annotVars, loginVars>>

AggregateDaily ==
    /\ pc = "agg_input"
    /\ daily' = aggregate_daily(agg_df)
    /\ pc' = "daily"
    /\ UNCHANGED <<agg_df, daily_emo, pipeVars, scoreVars, normVars, annotVars, loginVars>>

AggregateEmotionsDaily ==
    /\ pc = "daily"
    /\ daily_emo' = aggregate_emotions_daily(agg_df)
    /\ pc' = "aggregated"
    /\ UNCHANGED <<agg_df, daily, pipeVars, scoreVars, normVars, annotVars, loginVars>>

NextAgg == AddAggRow \/ AggregateDaily \/ AggregateEmotionsDaily

SpecAgg == InitAgg /\ [][NextAgg]_vars

(***************************************************************************)
(* Properties of the aggregators                                           *)
(***************************************************************************)
ObservedDays == {DayBin(agg_df[i]) : i \in DOMAIN agg_df}

\* C3: the daily outputs hold a row for a day only if some input row has
\* its created_at on that day; a day without posts between two observed
\* days is absent.
C3_NoGapFill ==
    /\ pc \in {"daily", "aggregated"} =>
         \A k \in DOMAIN daily : daily[k].created_at \in ObservedDays
    /\ pc = "aggregated" =>
         \A k \in DOMAIN daily_emo : daily_emo[k].date \in ObservedDays

\* The input rows whose created_at falls on UTC day d.
RowsOnDay(d) == {i \in DOMAIN agg_df : DayBin(agg_df[i]) = d}

\* The sum of a column over a set of input rows.
RECURSIVE TotalOver(_, _)
TotalOver(col, S) ==
    IF S = {} THEN 0
    ELSE LET i == CHOOSE j \in S : TRUE
         IN agg_df[i].data[col] + TotalOver(col, S \ {i})

RECURSIVE PostsTotal(_)
PostsTotal(d) == IF d = <<>> THEN 0 ELSE Head(d).posts + PostsTotal(Tail(d))

\* C20: for a non-empty input, each row of aggregate_daily has posts equal to
\* the number of input rows on that UTC day and likes, replies and shares
\* equal to the sums of the counts of those rows; the posts column sums to
\* the number of input rows, and an input within one day yields one row
\* whose posts is that number.
C20_DailyCountsAndSums ==
    (pc \in {"daily", "aggregated"} /\ agg_df # <<>>) =>
        /\ \A k \in DOMAIN daily :
              /\ daily[k].posts = Cardinality(RowsOnDay(daily[k].created_at))
              /\ daily[k].likes = TotalOver("like_count", RowsOnDay(daily[k].created_at))
              /\ daily[k].replies = TotalOver("reply_count", RowsOnDay(daily[k].created_at))
              /\ daily[k].shares = TotalOver("share_count", RowsOnDay(daily[k].created_at))
        /\ PostsTotal(daily) = Len(agg_df)
        /\ Cardinality(ObservedDays) = 1 =>
              (Len(daily) = 1 /\ daily[1].posts = Len(agg_df))

\* Two posts with the same counts on one day and a third three days later.
C20_Witness ==
    /\ pc = "daily"
    /\ Len(agg_df) = 3
    /\ agg_df[1].data = agg_df[2].data
    /\ Len(daily) = 4
    /\ daily[1].posts = 2
    /\ daily[1].likes = 6
    /\ daily[2].posts = 0
    /\ daily[4].posts = 1

(***************************************************************************)
(* _ensure_columns on one source row, cell by cell                         *)
(***************************************************************************)
MaxCells == 3

CountCells ==
    {NoneCell, IntCell(3), IntCell(-2), FloatCell(5), FloatCell(-3),
     StrCell("7"), StrCell("abc"), InfCell}
TimeCells == {NoneCell} \cup {RawTimeCell(t) : t \in GoodTimes \cup {BadTime}}
TextCells == {NoneCell, StrCell("a"), IntCell(7)}
PostIdCells == {NoneCell, NanCell, StrCell("p1"), IntCell(7)}

FrameColumns == Range(REQUIRED_COLS) \cup {"note"}

CellsOf(c) ==
    CASE c \in DOMAIN _NUMERIC_DEFAULTS -> CountCells
      [] c = "created_at" -> TimeCells
      [] c = "post_id" -> PostIdCells
      [] c = "note" -> {StrCell("x")}
      [] OTHER -> TextCells

InitNorm ==
    /\ pc = "frame"
    /\ NormIdle
    /\ AnnotIdle
    /\ LoginIdle
    /\ PipeIdle
    /\ ScoreIdle
    /\ AggIdle

\* The source table has one more column.
SetCell ==
    /\ pc = "frame"
    /\ Cardinality(DOMAIN frame) < MaxCells
    /\ \E c \in FrameColumns \ DOMAIN frame : \E v \in CellsOf(c) :
          frame' = [k \in DOMAIN frame \cup {c} |-> IF k = c THEN v ELSE frame[k]]
    /\ UNCHANGED <<pc, ensured, ensured2, pipeVars, scoreVars, aggVars, annotVars, loginVars>>

\* _ensure_columns(df)
EnsureColumns ==
    /\ pc = "frame"
    /\ IF EnsureRaises(frame)
       THEN pc' = "raised" /\ UNCHANGED ensured
       ELSE pc' = "ensured" /\ ensured' = ensure_frame(frame)
    /\ UNCHANGED <<frame, ensured2, pipeVars, scoreVars, aggVars, annotVars, loginVars>>

\* _ensure_columns of the normalised frame
EnsureAgain ==
    /\ pc = "ensured"
    /\ IF EnsureRaises(ensured)
       THEN pc' = "raised" /\ UNCHANGED ensured2
       ELSE pc' = "ensured2" /\ ensured2' = ensure_frame(ensured)
    /\ UNCHANGED <<frame, ensured, pipeVars, scoreVars, aggVars, annotVars, loginVars>>

NextNorm == SetCell \/ EnsureColumns \/ EnsureAgain

SpecNorm == InitNorm /\ [][NextNorm]_vars

(***************************************************************************)
(* Properties of _ensure_columns                                           *)
(***************************************************************************)
\* C13: _ensure_columns of a normalised table is that table, field for
\* field: defaults, integer counts, created_at text and string columns.
C13_EnsureIdempotent == pc = "ensured2" => ensured2 = ensured

\* Witness of C13: a frame with a fractional count, a created_at given with
\* a UTC offset and no post_id column, normalised twice.
C13_Witness ==
    /\ pc = "ensured2"
    /\ DOMAIN frame = {"like_count", "created_at", "content"}
    /\ frame["like_count"].kind = "float"
    /\ frame["created_at"].kind = "rawtime" /\ frame["created_at"].raw.off # 0
    /\ ensured["created_at"].kind = "isotext"
    /\ ensured2 = ensured

\* C15: in every normalised row the three counts are integers that are not
\* negative, whatever the input cell was.
C15_CountsNonNegativeIntegers ==
    pc \in {"ensured", "ensured2"} =>
        \A c \in DOMAIN _NUMERIC_DEFAULTS :
            ensured[c].kind = "int" /\ ensured[c].num >= 0

\* C16: a canonical column the source table lacks gets the default 0 (the
\* three counts) or the empty string (author, platform, url, post_id,
\* content).
C16_DefaultsForMissingColumns ==
    pc \in {"ensured", "ensured2"} =>
        \A c \in Range(REQUIRED_COLS) \ DOMAIN frame :
            /\ c \in DOMAIN _NUMERIC_DEFAULTS => ensured[c] = IntCell(0)
            /\ c \in {"author", "platform", "url", "post_id", "content"} =>
                  ensured[c] = StrCell("")

(***************************************************************************)
(* combine_and_clean on a list of tables, some None or without rows        *)
(***************************************************************************)
MaxTables == 2
MaxTableRows == 2

NoneTable == [is_none |-> TRUE]

\* Source rows: one without a valid timestamp, one with a count that is not
\* finite, one with a fractional count and an extra column.
TableRows ==
    {[platform |-> "reddit", post_id |-> "p1", created_at |-> BadTime, url |-> <<"v">>],
     [platform |-> "reddit", post_id |-> "p1", created_at |-> LateTime, url |-> <<"v">>,
      like_count |-> InfCell],
     [platform |-> "reddit", post_id |-> "p2", created_at |-> LateTime, url |-> NoneVal,
      like_count |-> FloatCell(5), note |-> StrCell("x")]}

\* Line 80: the rows of the tables that are not None and have rows, in
\* pd.concat order.
RECURSIVE ConcatTables(_)
ConcatTables(ts) ==
    IF ts = <<>> THEN <<>>
    ELSE (IF Head(ts).is_none THEN <<>> ELSE Head(ts).rows) \o ConcatTables(Tail(ts))

InitTables ==
    /\ pc = "tables"
    /\ PipeIdle
    /\ ScoreIdle
    /\ AggIdle
    /\ NormIdle
    /\ AnnotIdle
    /\ LoginIdle

\* The caller's list gets one more entry: None or a table without rows.
AddTable ==
    /\ pc = "tables"
    /\ Len(tables) < MaxTables
    /\ \E t \in {NoneTable, [is_none |-> FALSE, rows |-> <<>>]} :
          tables' = Append(tables, t)
    /\ UNCHANGED <<pc, dfs, primary, out, out2, columns, report,
                   scoreVars, aggVars, normVars, annotVars, loginVars>>

\* The last table of the list gets one more row.
AddTableRow ==
    /\ pc = "tables"
    /\ tables # <<>>
    /\ \E n \in {Len(tables)} :
          /\ ~tables[n].is_none
          /\ Len(tables[n].rows) < MaxTableRows
          /\ \E r \in TableRows :
                tables' = [tables EXCEPT ![n].rows = Append(@, r)]
    /\ UNCHANGED <<pc, dfs, primary, out, out2, columns, report,
                   scoreVars, aggVars, normVars, annotVars, loginVars>>

\* combine_and_clean(tables)
CombineTables ==
    /\ pc = "tables"
    /\ \E d \in {ConcatTables(tables)} :
          IF d = <<>>
          THEN /\ out' = <<>>
               /\ columns' = REQUIRED_COLS
               /\ pc' = "returned"
          ELSE IF \E i \in DOMAIN d : RowRaises(d[i])
          THEN /\ pc' = "raised"
               /\ UNCHANGED <<out, columns>>
          ELSE /\ \E tbl \in {Combined(d)} :
                  \E o \in SortValues(tbl, ValidLabels(d)) :
                   \E labels \in {UrlPass(tbl, DropDuplicatesKey(tbl, o))} :
                      out' = Finalize(tbl, labels)
               /\ columns' = REQUIRED_COLS
               /\ pc' = "returned"
    /\ UNCHANGED <<dfs, primary, out2, report, tables, scoreVars, aggVars, normVars, annotVars, loginVars>>

NextTables == AddTable \/ AddTableRow \/ CombineTables

SpecTables == InitTables /\ [][NextTables]_vars

\* The returned table has the nine canonical columns in order, and no rows
\* when the list is empty or holds no row with a valid timestamp.
ReturnsCanonicalTable ==
    pc = "returned" =>
        /\ columns = REQUIRED_COLS
        /\ \A k \in DOMAIN out : DOMAIN out[k].row \subseteq Range(columns)
        /\ (\A i \in DOMAIN ConcatTables(tables) :
               to_datetime_raw(ConcatTables(tables)[i].created_at) = NaT)
              => out = <<>>

\* C17: combine_and_clean never raises and returns a table with exactly the
\* nine canonical columns in order, whatever the inputs carry; for an empty
\* list, tables that are None or have no rows, and inputs whose rows all lack
\* a valid timestamp, the table has no rows.
C17_NeverRaisesNineColumns == pc # "raised" /\ ReturnsCanonicalTable

(***************************************************************************)
(* The profiler page on rows of the CSV whose annotations are not numbers  *)
(***************************************************************************)
MaxAnnotations == 2

ANNOTATION_COLS ==
    {"sentiment_compound", "sentiment_neu", "anger", "fear", "surprise", "joy", "disgust"}

\* A float cell holding v / FS.
Num(v) == [kind |-> "num", fs |-> v]

\* What pd.read_csv can put in an annotation column: a number, NaN for a
\* blank field, a text that is not a number.
AnnotationCells == {Num(0), Num(FS), NanCell, StrCell("abc")}

CsvContents == {<<>>, <<"FAKE", "!!">>}

\* float(x): a number or NaN stays what it is, a numeral is parsed; None and
\* any other text make it raise (see FloatRaises).
py_float(c) ==
    CASE c.kind \in {"num", "nan"} -> c
      [] c.kind = "str" /\ c.txt \in Numerals -> Num(NumeralValue(c.txt) * FS)

FloatRaises(c) == c.kind = "none" \/ (c.kind = "str" /\ c.txt \notin Numerals)

\* min(a, x) and max(a, x) of Python: x replaces a only when the comparison
\* with a is true, which it never is for NaN.
py_min(a, x) == IF x.kind = "nan" THEN a ELSE Min(a, x.fs)
py_max(a, x) == IF x.kind = "nan" THEN a ELSE Max(a, x.fs)

\* The floats of lines 105-112.
Floats(r) == [c \in ANNOTATION_COLS |-> py_float(r[c])]

HasNan(f, cols) == \E c \in cols : f[c].kind = "nan"

\* Lines 132-133 on floats that may be NaN.
emo_mix_cell(f) ==
    IF HasNan(f, {"anger", "fear", "surprise", "disgust", "joy"})
    THEN NanCell
    ELSE Num((E_ANGER * f.anger.fs + E_FEAR * f.fear.fs
              + E_SURPRISE * f.surprise.fs + E_DISGUST * f.disgust.fs)
             - E_JOY * f.joy.fs)

emo_mix_py(f) == Max(0, py_min(100 * FS, emo_mix_cell(f)))

\* Line 135
extreme_py(f) ==
    Max(0, py_min(FS, IF f.sentiment_compound.kind = "nan" THEN NanCell
                      ELSE Num(Abs(f.sentiment_compound.fs))))

\* Line 136
low_neu_py(f) ==
    py_max(0, IF f.sentiment_neu.kind = "nan" THEN NanCell
              ELSE Num((FS \div 2) - f.sentiment_neu.fs)) * 2

\* Lines 102-146 on a row of the frame, in units of 1/ONE.
misinfo_score_csv(r) ==
    LET f == Floats(r)
        raw == 200 * W_LEXICON * rumor_hit(r.content)
               + style_gate(r) * 100 * (W_CAPS * caps_ratio(r.content)
                                        + W_PUNCT * punct_boost(r.content)
                                        + W_EMOJI * emoji_boost(r.content))
               + 2 * W_EMO * emo_mix_py(f)
               + 200 * W_EXTREME * extreme_py(f)
               + 200 * W_LOWNEU * low_neu_py(f)
               + 200 * FS * domain_adjust(r.url)
               - 200 * FS * W_DEBUNK * Bool2Int(DebunkSearch(r.content))
    IN Max(0, Min(ONE, raw))

ScoreRaises(r) == \E c \in ANNOTATION_COLS : FloatRaises(r[c])

InitCsv ==
    /\ pc = "csv"
    /\ \E t \in CsvContents : row = [content |-> t, url |-> <<>>]
    /\ score = 0
    /\ breakdown = <<>>
    /\ PipeIdle
    /\ AggIdle
    /\ NormIdle
    /\ AnnotIdle
    /\ LoginIdle

\* The CSV has one more annotation column.
ReadColumn ==
    /\ pc = "csv"
    /\ Cardinality(DOMAIN row \cap ANNOTATION_COLS) < MaxAnnotations
    /\ \E c \in ANNOTATION_COLS \ DOMAIN row : \E v \in AnnotationCells :
          row' = [k \in DOMAIN row \cup {c} |-> IF k = c THEN v ELSE row[k]]
    /\ UNCHANGED <<pc, score, breakdown, pipeVars, aggVars, normVars, annotVars, loginVars>>

\* Lines 31-35: a column the CSV lacks is added with 0.
EnsureAnnotations ==
    /\ pc = "csv"
    /\ row' = [k \in DOMAIN row \cup ANNOTATION_COLS |->
                  IF k \in DOMAIN row THEN row[k] ELSE Num(0)]
    /\ pc' = "columns"
    /\ UNCHANGED <<score, breakdown, pipeVars, aggVars, normVars, annotVars, loginVars>>

\* df.apply(misinfo_score_row, axis=1) on the row
ScoreCsvRow ==
    /\ pc = "columns"
    /\ IF ScoreRaises(row)
       THEN /\ pc' = "raised"
            /\ UNCHANGED score
       ELSE /\ pc' = "scored"
            /\ score' = misinfo_score_csv(row)
    /\ UNCHANGED <<row, breakdown, pipeVars, aggVars, normVars, annotVars, loginVars>>

NextCsv == ReadColumn \/ EnsureAnnotations \/ ScoreCsvRow

SpecCsv == InitCsv /\ [][NextCsv]_vars

\* The row with 0 in place of every annotation that is not a number.
Zeroed(r) ==
    [k \in DOMAIN r |->
        IF k \in ANNOTATION_COLS
        THEN (IF r[k].kind = "num" THEN r[k].fs ELSE 0)
        ELSE r[k]]

\* A row whose annotations are all numbers gets the score of the numbers.
NumbersScoreAlike ==
    (pc = "scored" /\ \A k \in ANNOTATION_COLS : row[k].kind = "num")
        => score = misinfo_score_row(Zeroed(row))

\* C19: misinfo_score_row never raises, and a sentiment or emotion field that
\* is missing, NaN or not a number contributes to the score exactly as 0.
C19_BadAnnotationCountsAsZero ==
    /\ pc # "raised"
    /\ pc = "scored" => score = misinfo_score_row(Zeroed(row))

(***************************************************************************)
(* The profiler page on the two scenario contents                          *)
(***************************************************************************)
EmotionSteps == 4

\* "BREAKING!!! This is FAKE - shocking proof" followed by two sirens
AlarmContent == <<"BREAKING!!!", "This is", "FAKE", "shocking proof", "(siren)", "(siren)">>

CalmContent == <<"Officials confirmed the update this morning.">>

EmotionUnit == FS \div EmotionSteps

\* The ways to give out at most EmotionSteps units of intensity to the six
\* emotions.
EmotionSplits ==
    {e \in [EMO_KEYS -> 0..EmotionSteps] :
        e["anger"] + e["sadness"] + e["joy"] + e["fear"] + e["surprise"] + e["disgust"]
            <= EmotionSteps}

ScenarioCompounds == {-FS, -(FS \div 2), 0, FS \div 2, FS}
ScenarioNeutrals == {0, FS \div 20, FS \div 2, FS}

\* The rows of the CSV with one of the two contents and no url.
ScenarioRows ==
    {[content |-> c, url |-> <<>>,
      sentiment_compound |-> comp, sentiment_neu |-> neu,
      anger |-> e["anger"] * EmotionUnit, sadness |-> e["sadness"] * EmotionUnit,
      joy |-> e["joy"] * EmotionUnit, fear |-> e["fear"] * EmotionUnit,
      surprise |-> e["surprise"] * EmotionUnit, disgust |-> e["disgust"] * EmotionUnit] :
        c \in {AlarmContent, CalmContent}, e \in EmotionSplits,
        comp \in ScenarioCompounds, neu \in ScenarioNeutrals}

InitScenario ==
    /\ pc = "row"
    /\ row \in ScenarioRows
    /\ score = 0
    /\ breakdown = <<>>
    /\ PipeIdle
    /\ AggIdle
    /\ NormIdle
    /\ AnnotIdle
    /\ LoginIdle

NextScenario == ScoreRow \/ ExplainRow

SpecScenario == InitScenario /\ [][NextScenario]_vars

EmotionTotal(r) == r.anger + r.sadness + r.joy + r.fear + r.surprise + r.disgust

\* Near-zero neutral sentiment, anger, fear and surprise elevated, the six
\* emotions summing to 1.
AlarmAnnotation(r) ==
    /\ r.sentiment_neu <= FS \div 20
    /\ r.anger >= EmotionUnit
    /\ r.fear >= EmotionUnit
    /\ r.surprise >= EmotionUnit
    /\ EmotionTotal(r) = EmotionSteps * EmotionUnit

\* The alarm content has the gate at 1.0 with at least three signals.
AlarmGateFull ==
    (Scored /\ row.content = AlarmContent) =>
        (style_gate(row) = GATE_FULL /\ Signals(row) >= 3)

\* C21: the alarm content scores above 0.6, with style_gate = 1.0 and at
\* least three of the four signals active, for every annotation with
\* near-zero neutral sentiment and elevated anger, fear and surprise,
\* whatever sentiment_compound and the exact emotion split are.
C21_AlarmScenarioAboveSixTenths ==
    (Scored /\ row.content = AlarmContent /\ AlarmAnnotation(row)) =>
        /\ style_gate(row) = GATE_FULL
        /\ Signals(row) >= 3
        /\ score > (ONE \div 10) * 6

\* C22: the calm content, with no lexicon hit and no url, scores below 0.2
\* for every annotation with sentiment_neu >= 0.5, whatever the emotion
\* intensities and sentiment_compound are.
C22_CalmScenarioBelowTwoTenths ==
    (Scored /\ row.content = CalmContent /\ row.sentiment_neu >= FS \div 2) =>
        score < (ONE \div 10) * 2

\* The calm content with all the intensity on anger and an extreme compound.
C22_Witness ==
    /\ pc = "scored"
    /\ row.content = CalmContent
    /\ row.sentiment_neu = FS
    /\ row.anger = FS
    /\ row.sentiment_compound = -FS
    /\ rumor_hit(row.content) = 0
    /\ score > (ONE \div 100) * 18

(***************************************************************************)
(* emotions.py: compute_emotions and dominant_emotion.  A text is a        *)
(* sequence of words; an intensity is a fraction [num, den].               *)
(***************************************************************************)
MaxWords == 3

\* EMO_KEYS in the order of the list.
EMO_ORDER == <<"anger", "sadness", "joy", "fear", "surprise", "disgust">>

NRC_CATEGORIES == EMO_KEYS \cup {"anticipation", "trust", "positive", "negative"}

Vocabulary == {"attack", "happy", "trust", "table", " "}

\* The affects the NRC lexicon lists for a word.
NRCAffects(w) ==
    CASE w = "attack" -> {"anger", "fear", "negative"}
      [] w = "happy"  -> {"anticipation", "joy", "positive", "trust"}
      [] w = "trust"  -> {"trust"}
      [] OTHER        -> {}

StrText(words) == [kind |-> "str", words |-> words]

Frac(n, d) == [num |-> n, den |-> d]

\* text.strip() == ""
IsBlank(words) == \A i \in DOMAIN words : words[i] = " "

\* NRCLex(text).raw_emotion_scores, with 0 for a category it does not hold
raw_emotion_scores(words) ==
    [c \in NRC_CATEGORIES |->
        Cardinality({i \in DOMAIN words : c \in NRCAffects(words[i])})]

\* Mutant: the total runs over every NRC category.
emotion_total_AllCategories(raw) ==
    raw["anger"] + raw["sadness"] + raw["joy"] + raw["fear"] + raw["surprise"]
    + raw["disgust"] + raw["anticipation"] + raw["trust"] + raw["positive"]
    + raw["negative"]

\* total = sum(filtered.values())
emotion_total(raw) ==
    raw["anger"] + raw["sadness"] + raw["joy"] + raw["fear"] + raw["surprise"]
    + raw["disgust"]

compute_emotions(t) ==
    IF t.kind # "str" THEN [k \in EMO_KEYS |-> Frac(0, 1)]
    ELSE IF IsBlank(t.words) THEN [k \in EMO_KEYS |-> Frac(0, 1)]
    ELSE LET raw == raw_emotion_scores(t.words)
             total == emotion_total(raw)
         IN IF total <= 0
            THEN [k \in EMO_KEYS |-> Frac(raw[k], 1)]
            ELSE [k \in EMO_KEYS |-> Frac(raw[k], total)]

\* a / b > c / d for positive denominators
FracGreater(a, b) == a.num * b.den > b.num * a.den

\* max(emodict, key=emodict.get): the first key of the dict with the
\* greatest value; "none" when all values are 0.
dominant_emotion(emodict) ==
    IF \A k \in DOMAIN emodict : emodict[k].num = 0 THEN "none"
    ELSE LET best == CHOOSE i \in DOMAIN EMO_ORDER :
                        /\ \A j \in DOMAIN EMO_ORDER :
                              ~FracGreater(emodict[EMO_ORDER[j]], emodict[EMO_ORDER[i]])
                        /\ \A j \in 1..(i - 1) :
                              FracGreater(emodict[EMO_ORDER[i]], emodict[EMO_ORDER[j]])
         IN EMO_ORDER[best]

InitEmotions ==
    /\ pc = "text"
    /\ emo_text \in {StrText(<<>>), NoneCell, IntCell(7)}
    /\ posts = <<>> /\ passed = <<>> /\ sent_df = <<>> /\ emo_df = <<>>
    /\ emotions = <<>>
    /\ PipeIdle
    /\ ScoreIdle
    /\ AggIdle
    /\ NormIdle
    /\ LoginIdle

\* One more word of the text.
TypeWord ==
    /\ pc = "text"
    /\ emo_text.kind = "str"
    /\ Len(emo_text.words) < MaxWords
    /\ \E w \in Vocabulary : emo_text' = StrText(Append(emo_text.words, w))
    /\ UNCHANGED <<pc, posts, passed, sent_df, emo_df, emotions,
                   pipeVars, scoreVars, aggVars, normVars, loginVars>>

ComputeEmotions ==
    /\ pc = "text"
    /\ emotions' = compute_emotions(emo_text)
    /\ pc' = "emotions"
    /\ UNCHANGED <<posts, passed, sent_df, emo_df, emo_text,
                   pipeVars, scoreVars, aggVars, normVars, loginVars>>

NextEmotions == TypeWord \/ ComputeEmotions

SpecEmotions == InitEmotions /\ [][NextEmotions]_vars

\* Some word of the text has one of the six emotions among its affects.
HasEmotionWord(t) ==
    /\ t.kind = "str"
    /\ \E i \in DOMAIN t.words : NRCAffects(t.words[i]) \cap EMO_KEYS # {}

\* C24: compute_emotions returns exactly the six keys, each value in [0,1];
\* the six values sum to 1 when one of the six emotions has a positive raw
\* count, and are all 0 otherwise.
C24_SixEmotionsNormalised ==
    pc = "emotions" =>
        /\ DOMAIN emotions = {"anger", "sadness", "joy", "fear", "surprise", "disgust"}
        /\ \A k \in DOMAIN emotions :
              /\ emotions[k].den > 0
              /\ 0 <= emotions[k].num
              /\ emotions[k].num <= emotions[k].den
        /\ IF HasEmotionWord(emo_text)
           THEN /\ \A k \in DOMAIN emotions : emotions[k].den = emotions["anger"].den
                /\ emotions["anger"].num + emotions["sadness"].num + emotions["joy"].num
                   + emotions["fear"].num + emotions["surprise"].num
                   + emotions["disgust"].num = emotions["anger"].den
           ELSE \A k \in DOMAIN emotions : emotions[k].num = 0

\* A text with anger, fear and joy words next to a word of another category.
C24_Witness ==
    /\ pc = "emotions"
    /\ emo_text = StrText(<<"attack", "happy", "trust">>)
    /\ emotions["anger"] = Frac(1, 3)
    /\ emotions["joy"] = Frac(1, 3)
    /\ emotions["sadness"] = Frac(0, 3)

(***************************************************************************)
(* pipeline.py: add_sentiment and add_emotions.  A table is its index      *)
(* labels and its rows, both in row order.                                 *)
(***************************************************************************)
MaxPosts == 2

PostContents == {<<>>, <<"attack">>, <<"happy", "trust">>}

\* Rows as combine_and_clean returns them.
PostRows ==
    {[platform |-> "reddit", post_id |-> p, author |-> "a", created_at |-> 0,
      content |-> c, like_count |-> 3, reply_count |-> 0, share_count |-> 0,
      url |-> ""] : p \in {"p1", "p2"}, c \in PostContents}

\* The index reset_index(drop=True) gives a table of n rows.
DefaultIndex(n) == [i \in 1..n |-> i - 1]

EmptyTable == [index |-> <<>>, rows |-> <<>>]

\* The valence the VADER lexicon gives a word.
Valence(w) == CASE w = "attack" -> -1 [] w = "happy" -> 1 [] OTHER -> 0

\* analyzer.polarity_scores(text or ""), as the counts of the positive,
\* neutral and negative words and their balance.
polarity_scores(words) ==
    LET pos == Cardinality({i \in DOMAIN words : Valence(words[i]) > 0})
        neg == Cardinality({i \in DOMAIN words : Valence(words[i]) < 0})
    IN [sentiment_pos |-> pos, sentiment_neu |-> Len(words) - pos - neg,
        sentiment_neg |-> neg, sentiment_compound |-> pos - neg]

\* Series.apply(_score): one row of scores per row, under the same labels.
apply_score(df) ==
    [index |-> df.index,
     rows |-> [i \in DOMAIN df.rows |-> polarity_scores(df.rows[i].content)]]

\* The columns of two rows side by side.
Beside(a, b) == [k \in DOMAIN a \cup DOMAIN b |-> IF k \in DOMAIN a THEN a[k] ELSE b[k]]

\* The row of a table under a label, with NaN in every column when the
\* table has no such label.
RowAt(df, label) ==
    IF \E i \in DOMAIN df.index : df.index[i] = label
    THEN df.rows[CHOOSE i \in DOMAIN df.index : df.index[i] = label]
    ELSE [k \in DOMAIN df.rows[1] |-> NanCell]

\* pd.concat([a, b], axis=1): rows are matched by index label.
concat_axis1(a, b) ==
    IF a.index = b.index
    THEN [index |-> a.index,
          rows |-> [i \in DOMAIN a.rows |-> Beside(a.rows[i], b.rows[i])]]
    ELSE LET labels == a.index \o SelectSeq(b.index, LAMBDA l : l \notin Range(a.index))
         IN [index |-> labels,
             rows |-> [i \in DOMAIN labels |->
                          Beside(RowAt(a, labels[i]), RowAt(b, labels[i]))]]

reset_index(df) == [index |-> DefaultIndex(Len(df.rows)), rows |-> df.rows]

\* Mutant: the columns are added to the table that was passed.
add_sentiment_InPlace(df) ==
    IF df.rows = <<>> THEN [arg |-> df, result |-> df]
    ELSE [arg |-> concat_axis1(df, apply_score(df)),
          result |-> concat_axis1(df, apply_score(df))]

\* add_sentiment: the table that was passed as the call leaves it, and the
\* table returned.
add_sentiment(df) ==
    IF df.rows = <<>> THEN [arg |-> df, result |-> df]
    ELSE [arg |-> df, result |-> concat_axis1(df, apply_score(df))]

\* emotions.add_emotions_to_df(df, text_col="content")
add_emotions_to_df(df) ==
    LET rows == [i \in DOMAIN df.rows |-> compute_emotions(StrText(df.rows[i].content))]
        emo == [index |-> DefaultIndex(Len(rows)),
                rows |-> [i \in DOMAIN rows |->
                            Beside(rows[i],
                                   [dominant_emotion |-> dominant_emotion(rows[i])])]]
    IN concat_axis1(reset_index(df), reset_index(emo))

add_emotions(df) ==
    IF df.rows = <<>> THEN [arg |-> df, result |-> df]
    ELSE [arg |-> df, result |-> add_emotions_to_df(df)]

InitAnnotate ==
    /\ pc = "posts"
    /\ posts = EmptyTable
    /\ passed = <<>> /\ sent_df = <<>> /\ emo_df = <<>>
    /\ emo_text = <<>> /\ emotions = <<>>
    /\ PipeIdle
    /\ ScoreIdle
    /\ AggIdle
    /\ NormIdle
    /\ LoginIdle

\* combine_and_clean returned one more row.
AddPost ==
    /\ pc = "posts"
    /\ Len(posts.rows) < MaxPosts
    /\ \E r \in PostRows : posts' = reset_index([posts EXCEPT !.rows = Append(@, r)])
    /\ UNCHANGED <<pc, passed, sent_df, emo_df, emo_text, emotions,
                   pipeVars, scoreVars, aggVars, normVars, loginVars>>

\* combined = add_sentiment(combined)
AddSentiment ==
    /\ pc = "posts"
    /\ \E call \in {add_sentiment(posts)} :
          /\ posts' = call.arg
          /\ sent_df' = call.result
    /\ passed' = <<posts>>
    /\ pc' = "sentiment"
    /\ UNCHANGED <<emo_df, emo_text, emotions,
                   pipeVars, scoreVars, aggVars, normVars, loginVars>>

\* combined = add_emotions(combined)
AddEmotions ==
    /\ pc = "sentiment"
    /\ \E call \in {add_emotions(sent_df)} :
          /\ sent_df' = call.arg
          /\ emo_df' = call.result
    /\ passed' = Append(passed, sent_df)
    /\ pc' = "emotions"
    /\ UNCHANGED <<posts, emo_text, emotions,
                   pipeVars, scoreVars, aggVars, normVars, loginVars>>

NextAnnotate == AddPost \/ AddSentiment \/ AddEmotions

SpecAnnotate == InitAnnotate /\ [][NextAnnotate]_vars

\* The nine canonical fields of a row.
Canonical(r) == [c \in Range(REQUIRED_COLS) |-> r[c]]

\* Table b holds the rows of table a in the same order with the same nine
\* canonical fields.
SamePosts(a, b) ==
    /\ Len(b.rows) = Len(a.rows)
    /\ \A i \in DOMAIN a.rows : Canonical(b.rows[i]) = Canonical(a.rows[i])

\* C23: add_sentiment and add_emotions return the rows of their input in the
\* same order with the nine canonical fields unchanged, the annotations of
\* row i are computed from the content of row i, and the table passed is not
\* modified.
C23_AnnotationIsPureLayering ==
    /\ pc \in {"sentiment", "emotions"} =>
          /\ posts = passed[1]
          /\ SamePosts(passed[1], sent_df)
          /\ \A i \in DOMAIN sent_df.rows :
                \A k \in {"sentiment_pos", "sentiment_neu", "sentiment_neg",
                          "sentiment_compound"} :
                    sent_df.rows[i][k] = polarity_scores(passed[1].rows[i].content)[k]
    /\ pc = "emotions" =>
          /\ sent_df = passed[2]
          /\ SamePosts(passed[2], emo_df)
          /\ \A i \in DOMAIN emo_df.rows :
                /\ \A k \in EMO_KEYS :
                      emo_df.rows[i][k]
                          = compute_emotions(StrText(passed[1].rows[i].content))[k]
                /\ \A k \in DOMAIN passed[2].rows[i] :
                      emo_df.rows[i][k] = passed[2].rows[i][k]

\* Two posts with different contents, annotated by both steps.
C23_Witness ==
    /\ pc = "emotions"
    /\ Len(posts.rows) = 2
    /\ posts.rows[1].content = <<"attack">>
    /\ posts.rows[2].content = <<"happy", "trust">>
    /\ emo_df.rows[1].dominant_emotion = "anger"
    /\ emo_df.rows[2].dominant_emotion = "joy"
    /\ emo_df.rows[1].sentiment_compound = -1
    /\ emo_df.rows[2].sentiment_compound = 1

(***************************************************************************)
(* loaders/instagram_loader.py: _ensure_session                            *)
(***************************************************************************)
\* bool(x) of an Optional[str] argument
Truthy(c) == c.kind = "str" /\ c.txt # ""

\* The arguments of a call and whether the files they name exist.
AuthArguments ==
    {a \in [login_user : {NoneCell, StrCell(""), StrCell("u")},
            sessionfile : {NoneCell, StrCell("s")},
            session_exists : BOOLEAN,
            cookies_json : {NoneCell, StrCell("c")},
            cookies_exists : BOOLEAN,
            login_pass : {NoneCell, StrCell("p")}] :
        /\ a.session_exists => Truthy(a.sessionfile)
        /\ a.cookies_exists => Truthy(a.cookies_json)}

\* Whether the library calls of a run succeed: reading the session file or
\* the cookies, logging in, saving the session file.
LibraryOutcomes == [read_ok : BOOLEAN, login_ok : BOOLEAN, save_ok : BOOLEAN]

\* Mutant: the session file is not looked for.
SessionFileUsable_Unchecked(a) == Truthy(a.login_user) /\ Truthy(a.sessionfile)

\* Line 70: login_user and sessionfile and os.path.exists(sessionfile)
SessionFileUsable(a) ==
    Truthy(a.login_user) /\ Truthy(a.sessionfile) /\ a.session_exists

\* _ensure_session: the methods attempted, in order, and the exception that
\* leaves the call, if any.
ensure_session(a, lib) ==
    IF SessionFileUsable(a)
    THEN [attempts |-> <<"sessionfile">>,
          raised |-> IF lib.read_ok THEN <<>> ELSE <<"InstaloaderException">>]
    ELSE IF Truthy(a.cookies_json)
    THEN [attempts |-> <<"cookies_json">>,
          raised |-> IF ~a.cookies_exists THEN <<"FileNotFoundError">>
                     ELSE IF lib.read_ok THEN <<>> ELSE <<"JSONDecodeError">>]
    ELSE IF Truthy(a.login_user) /\ Truthy(a.login_pass)
    THEN [attempts |-> <<"password">>,
          raised |-> IF ~lib.login_ok THEN <<"InstaloaderException">>
                     ELSE IF Truthy(a.sessionfile) /\ ~lib.save_ok THEN <<"OSError">>
                     ELSE <<>>]
    ELSE [attempts |-> <<>>, raised |-> <<"RuntimeError">>]

InitLogin ==
    /\ pc = "login"
    /\ auth \in AuthArguments
    /\ attempts = <<>>
    /\ raised = <<>>
    /\ PipeIdle
    /\ ScoreIdle
    /\ AggIdle
    /\ NormIdle
    /\ AnnotIdle

EnsureSession ==
    /\ pc = "login"
    /\ \E lib \in LibraryOutcomes :
          \E call \in {ensure_session(auth, lib)} :
              /\ attempts' = call.attempts
              /\ raised' = call.raised
    /\ pc' = "session"
    /\ UNCHANGED <<auth, pipeVars, scoreVars, aggVars, normVars, annotVars>>

NextLogin == EnsureSession

SpecLogin == InitLogin /\ [][NextLogin]_vars

\* An argument is given: it is a non-empty text.
Given(c) == c # NoneCell /\ c # StrCell("")

\* The method the documented preference order selects.
Preferred(a) ==
    IF Given(a.login_user) /\ Given(a.sessionfile) /\ a.session_exists
    THEN <<"sessionfile">>
    ELSE IF Given(a.cookies_json) THEN <<"cookies_json">>
    ELSE IF Given(a.login_user) /\ Given(a.login_pass) THEN <<"password">>
    ELSE <<>>

\* C25: _ensure_session attempts exactly the one method the preference order
\* selects (session file, then cookies JSON, then username and password),
\* never a lower one after a higher one was selected, and raises
\* RuntimeError exactly when no method can be selected.
C25_OneMethodInPreferenceOrder ==
    pc = "session" =>
        /\ attempts = Preferred(auth)
        /\ raised = <<"RuntimeError">> <=> Preferred(auth) = <<>>

\* Every method is available and the session file is the one used.
C25_Witness ==
    /\ pc = "session"
    /\ Given(auth.login_user) /\ Given(auth.sessionfile) /\ auth.session_exists
    /\ Given(auth.cookies_json)
    /\ Given(auth.login_pass)
    /\ attempts = <<"sessionfile">>
    /\ raised = <<>>

====
